---- MODULE Spec2Model ----
(***************************************************************************)
(* Model of the credit simulator of src/app.py: the amortization engine    *)
(* (pmt, seleccionar_tasa_aval, calcular_cuota_mensual, simulate) with its *)
(* date helpers and the decimal arithmetic it runs on.                     *)
(*                                                                         *)
(* Money is decimal.Decimal in the source, under a context of 28           *)
(* significant digits and ROUND_HALF_UP (app.py:56-57).  A Decimal is      *)
(* modelled as a coefficient and an exponent.  Coefficients that do not    *)
(* fit a machine integer are sequences of decimal digits, least            *)
(* significant digit first, without leading zeros (<<>> is zero).          *)
(***************************************************************************)
EXTENDS Integers, Sequences, FiniteSets, TLC

Max(a, b) == IF a >= b THEN a ELSE b
Min(a, b) == IF a <= b THEN a ELSE b
Abs(x) == IF x < 0 THEN -x ELSE x

(***************************************************************************)
(* Digit-sequence arithmetic on non-negative integers of any size.         *)
(* Carries and borrows are resolved by look-ahead rather than by a         *)
(* recursion over the digits; only long division recurses, once per digit. *)
(***************************************************************************)
Pow10 == <<1, 10, 100, 1000, 10000, 100000, 1000000, 10000000, 100000000, 1000000000>>

\* the sequence f as an explicit tuple: a function constructor is evaluated
\* element by element on every application until it is made a tuple
Tuple(f) == f \o <<>>

\* w, once v has been computed: the elements of a tuple are evaluated in
\* order, so a value that w uses is finished before w is started
After(v, w) == <<v, w>>[2]

\* drop leading zeros
DStrip(a) ==
    IF a = <<>> \/ a[Len(a)] # 0 THEN a
    ELSE LET nz == {ix \in 1..Len(a) : a[ix] # 0}
         IN  IF nz = {} THEN <<>>
             ELSE SubSeq(a, 1, CHOOSE ix \in nz : \A j \in nz : j <= ix)

\* digits of a machine integer 0 <= x < 2^31
DFromNat(x) == DStrip(Tuple([ix \in 1..10 |-> (x \div Pow10[ix]) % 10]))

DDigit(a, ix) == IF 1 <= ix /\ ix <= Len(a) THEN a[ix] ELSE 0

\* sum of a sequence of at most 64 integers, four at a time
Sum4(f, g) == DDigit(f, 4 * g - 3) + DDigit(f, 4 * g - 2) + DDigit(f, 4 * g - 1) + DDigit(f, 4 * g)
Fold4(f) == Tuple([g \in 1..((Len(f) + 3) \div 4) |-> Sum4(f, g)])
SumSeq(f) ==
    LET f1 == Fold4(f)
        f2 == Fold4(f1)
        folds == <<f1, f2>>
    IN  Sum4(folds[2], 1)

\* value of a coefficient of at most 10 digits
DToNat(a) == SumSeq(Tuple([ix \in 1..Len(a) |-> a[ix] * Pow10[ix]]))

\* columns with values 0..18: the carry into column k comes from the nearest
\* lower column that is not 9
DResolve(s) ==
    DStrip(Tuple([ix \in 1..(Len(s) + 1) |->
              LET carry == IF \E j \in 1..(ix - 1) :
                                 s[j] >= 10 /\ \A i \in (j + 1)..(ix - 1) : s[i] = 9
                           THEN 1 ELSE 0
              IN  (DDigit(s, ix) + carry) % 10]))

\* one pass of carries: every column keeps its last digit and hands the rest on
DCarryPass(s) ==
    Tuple([ix \in 1..(Len(s) + 1) |-> (DDigit(s, ix) % 10) + (DDigit(s, ix - 1) \div 10)])

\* the coefficient with column values s, each below 10^5: after five passes
\* every column is at most 10
DCarry(s) ==
    LET p1 == DCarryPass(s)
        p2 == DCarryPass(p1)
        p3 == DCarryPass(p2)
        p4 == DCarryPass(p3)
        p5 == DCarryPass(p4)
        passes == <<s, p1, p2, p3, p4, p5>>
    IN  After(passes, DResolve(p5))

DAdd(a, b) ==
    DResolve(Tuple([ix \in 1..Max(Len(a), Len(b)) |-> DDigit(a, ix) + DDigit(b, ix)]))

\* a - b for a >= b: column k borrows when the lower digits of a are below
\* those of b
DSub(a, b) ==
    DStrip(Tuple([ix \in 1..Len(a) |->
              LET borrow == IF \E j \in 1..(ix - 1) :
                                  a[j] < DDigit(b, j)
                                  /\ \A i \in (j + 1)..(ix - 1) : a[i] = DDigit(b, i)
                            THEN 1 ELSE 0
              IN  (a[ix] - DDigit(b, ix) - borrow) % 10]))

DMulSmall(a, m) == DCarry(Tuple([ix \in 1..Len(a) |-> a[ix] * m]))

\* column ix of the product a * b
DMulCol(a, b, ix, lo, hi) ==
    SumSeq(Tuple([j \in 1..(hi - lo + 1) |-> a[lo + j - 1] * b[ix + 2 - lo - j]]))

DMul(a, b) ==
    IF a = <<>> \/ b = <<>> THEN <<>>
    ELSE DCarry(Tuple([ix \in 1..(Len(a) + Len(b) - 1) |->
                    DMulCol(a, b, ix, Max(1, ix + 1 - Len(b)), Min(Len(a), ix))]))

\* a * 10^s
DShift(a, s) == IF a = <<>> THEN <<>> ELSE Tuple([ix \in 1..s |-> 0]) \o a

\* -1, 0, 1 as a < b, a = b, a > b
DCmp(a, b) ==
    IF a = b THEN 0
    ELSE IF Len(a) > Len(b) THEN 1
    ELSE IF Len(a) < Len(b) THEN -1
    ELSE IF \E ix \in 1..Len(a) : a[ix] > b[ix] /\ \A j \in (ix + 1)..Len(a) : a[j] = b[j]
         THEN 1 ELSE -1

\* one step of long division: bring the digit down to the remainder r and
\* take out the divisor as often as it fits; mult[j] = j * divisor, j in 1..9
DivTake(mult, r1, cnt) == [q |-> cnt, r |-> IF cnt = 0 THEN r1 ELSE DSub(r1, mult[cnt])]
DivFit(mult, r1) == DivTake(mult, r1, Cardinality({j \in 1..9 : DCmp(mult[j], r1) <= 0}))
DivDigit(digit, mult, r) == DivFit(mult, DStrip(<<digit>> \o r))

\* the quotient so far (least significant digit first) with one more digit
DivPush(acc, taken) == [q |-> <<taken.q>> \o acc.q, r |-> taken.r]

\* long division over the digits a[low], a[low-1], .., a[1]: acc holds the
\* quotient digits found so far and the remainder they leave
DivNext(a, mult, low, acc) ==
    IF Len(acc.q) = low THEN acc
    ELSE DivPush(acc, DivDigit(a[low - Len(acc.q)], mult, acc.r))

\* four digits to a level of the recursion, which keeps it shallow
RECURSIVE DivSteps(_, _, _, _)
DivSteps(a, mult, low, acc) ==
    IF Len(acc.q) = low THEN acc
    ELSE DivSteps(a, mult, low,
                  DivNext(a, mult, low, DivNext(a, mult, low,
                  DivNext(a, mult, low, DivNext(a, mult, low, acc)))))

DivResult(acc) == [q |-> DStrip(acc.q), r |-> acc.r]

\* the steps, once the multiples of the divisor are computed
DivRun(a, mult, low, acc) == After(mult, DivResult(DivSteps(a, mult, low, acc)))

\* the leading lead digits of a are below the divisor and start as remainder
DivFrom(a, d, lead) ==
    DivRun(a, Tuple([j \in 1..9 |-> DMulSmall(d, j)]), Len(a) - lead,
           [q |-> <<>>, r |-> SubSeq(a, Len(a) - lead + 1, Len(a))])

\* divmod(a, d) for d > 0
DDivMod(a, d) == DivFrom(a, d, Min(Len(d) - 1, Len(a)))

(***************************************************************************)
(* Decimal operations under a context (precision, rounding).               *)
(* A value is [c |-> digits, e |-> exponent], non-negative.                *)
(***************************************************************************)
\* app.py:56  getcontext().prec = 28
Prec == 28

\* app.py:57  getcontext().rounding = ROUND_HALF_UP
Rounding == "ROUND_HALF_UP"

\* round a coefficient to at most prec significant digits
DecRound(x, prec, mode) ==
    IF Len(x.c) <= prec THEN x
    ELSE LET s == Len(x.c) - prec
             q == SubSeq(x.c, s + 1, Len(x.c))
             top == x.c[s]
             restZero == \A j \in 1..(s - 1) : x.c[j] = 0
             up == \/ top > 5
                   \/ top = 5 /\ ~restZero
                   \/ top = 5 /\ restZero /\ (mode = "ROUND_HALF_UP" \/ q[1] % 2 = 1)
             q2 == IF up THEN DAdd(q, <<1>>) ELSE q
         IN  IF Len(q2) > prec THEN [c |-> Tail(q2), e |-> x.e + s + 1]
                               ELSE [c |-> q2, e |-> x.e + s]

DecMul(a, b, prec, mode) == DecRound([c |-> DMul(a.c, b.c), e |-> a.e + b.e], prec, mode)

\* the quotient of a division with exponent exp; an inexact quotient ending
\* in 0 or 5 is moved off the tie so that the rounding sees the remainder
DivSticky(qr, exp) ==
    [c |-> IF qr.r # <<>> /\ DDigit(qr.q, 1) % 5 = 0 THEN DAdd(qr.q, <<1>>) ELSE qr.q,
     e |-> exp]

DecDivShifted(a, b, shift, prec, mode) ==
    DecRound(DivSticky(DDivMod(IF shift >= 0 THEN DShift(a.c, shift) ELSE a.c,
                               IF shift >= 0 THEN b.c ELSE DShift(b.c, -shift)),
                       a.e - b.e - shift),
             prec, mode)

\* a / b, correctly rounded to prec digits (b > 0)
DecDiv(a, b, prec, mode) ==
    IF a.c = <<>> THEN [c |-> <<>>, e |-> 0]
    ELSE After(b, DecDivShifted(a, b, Len(b.c) - Len(a.c) + prec + 1, prec, mode))

\* a + 1 for a with exponent <= 0 (exact)
DecAddOne(a) == [c |-> DAdd(a.c, DShift(<<1>>, -a.e)), e |-> a.e]

\* 1 - a for 0 < a < 1 (exponent < 0), rounded to the context
DecOneMinus(a, prec, mode) ==
    After(a, DecRound([c |-> DSub(DShift(<<1>>, -a.e), a.c), e |-> a.e], prec, mode))

\* highest power of two not above n (1 <= n < 128)
TopBit(cnt) == CHOOSE b \in {1, 2, 4, 8, 16, 32, 64} : b <= cnt /\ cnt < 2 * b

\* one step of square-and-multiply, for the bit of n of value mask; t is the
\* reciprocal of the base
DecPowBit(sq, t, bit, w) ==
    After(sq, IF bit = 1 THEN DecMul(sq, t, w, "ROUND_HALF_EVEN") ELSE sq)
DecPowStep(prev, t, cnt, mask, w) ==
    DecPowBit(DecMul(prev, prev, w, "ROUND_HALF_EVEN"), t, (cnt \div mask) % 2, w)

\* the steps for the bits of n from mask down, each on the finished result of
\* the one before
RECURSIVE DecPowSteps(_, _, _, _, _)
DecPowSteps(prev, t, cnt, mask, w) ==
    IF mask = 0 THEN prev
    ELSE After(prev, DecPowSteps(DecPowStep(prev, t, cnt, mask, w), t, cnt, mask \div 2, w))

DecPowFrom(t, cnt, w) == DecPowSteps(t, t, cnt, TopBit(cnt) \div 2, w)

\* base ** Decimal(-n) for an integer 1 <= n < 128: the reciprocal of the
\* base is raised to n by squaring, bit by bit below the top bit of n, in a
\* working precision of prec + digits(n) + 3 rounded half-even, and the result
\* is rounded to the context.
DecPowWork(base, cnt, w) ==
    DecPowFrom(DecDiv([c |-> <<1>>, e |-> 0], base, w, "ROUND_HALF_EVEN"), cnt, w)

DecPowNeg(base, cnt, prec, mode) ==
    DecRound(DecPowWork(base, cnt, prec + Len(DFromNat(cnt)) + 3), prec, mode)

\* x.quantize(Decimal("1")) of a non-negative x, rounding half up
DecQuantize(x) ==
    IF x.e >= 0 THEN DToNat(DShift(x.c, x.e))
    ELSE LET s == -x.e
         IN  IF Len(x.c) < s THEN 0
             ELSE DToNat(SubSeq(x.c, s + 1, Len(x.c))) + (IF x.c[s] >= 5 THEN 1 ELSE 0)

\* a Decimal given as machine integers [coef, exp], coef >= 0
Dec(coef, exp) == [c |-> DFromNat(coef), e |-> exp]

(***************************************************************************)
(* Decimal comparison (monto > Decimal("5000000"), app.py:255; gt=0,        *)
(* app.py:102).  A Decimal is [neg, c, e]: sign, coefficient digits (least  *)
(* significant first) and exponent; DecCmp aligns the exponents.            *)
(***************************************************************************)
DecCmpAbs(a, b) ==
    LET m == Min(a.e, b.e)
    IN  DCmp(DShift(a.c, a.e - m), DShift(b.c, b.e - m))

DecGT(a, b) ==
    IF a.neg /\ b.neg THEN DecCmpAbs(a, b) < 0
    ELSE IF a.neg THEN FALSE
    ELSE IF b.neg THEN a.c # <<>> \/ b.c # <<>>
    ELSE DecCmpAbs(a, b) > 0

\* Decimal(str) of a non-negative literal "coef E exp" and of a negative one.
DecPos(coef, exp) == [neg |-> FALSE, c |-> DFromNat(coef), e |-> exp]
DecNeg(coef, exp) == [neg |-> TRUE, c |-> DFromNat(coef), e |-> exp]

(***************************************************************************)
(* PRODUCT_CONFIG (app.py:31-37).  Rates are in units of 10^-4, the tax in  *)
(* units of 10^-2, exactly as the Decimal literals of the source.           *)
(***************************************************************************)
base_rate_monthly == DecPos(183, -4)
rate_aval_payroll == DecPos(705, -4)
rate_aval_individualorcompany == DecPos(405, -4)
iva_rate == DecPos(19, -2)
AvalThreshold == DecPos(5000000, 0)

(***************************************************************************)
(* Strings are sequences of one-character strings, so that str.strip() and  *)
(* str.lower() (app.py:251) are computed rather than assumed.  An Optional  *)
(* value is None or a string.                                               *)
(***************************************************************************)
None == [isNone |-> TRUE]
Str(chars) == [isNone |-> FALSE, s |-> chars]

Whitespace == {" ", "\t", "\n", "\r"}

Upper == <<"A", "B", "C", "D", "E", "F", "G", "H", "I", "J", "K", "L", "M",
           "N", "O", "P", "Q", "R", "S", "T", "U", "V", "W", "X", "Y", "Z">>
Lower == <<"a", "b", "c", "d", "e", "f", "g", "h", "i", "j", "k", "l", "m",
           "n", "o", "p", "q", "r", "s", "t", "u", "v", "w", "x", "y", "z">>

lower_char(ch) ==
    IF \E j \in 1..Len(Upper) : Upper[j] = ch
    THEN Lower[CHOOSE j \in 1..Len(Upper) : Upper[j] = ch]
    ELSE ch

lower(s) == Tuple([j \in 1..Len(s) |-> lower_char(s[j])])

strip(s) ==
    LET keep == {j \in 1..Len(s) : s[j] \notin Whitespace}
    IN  IF keep = {} THEN <<>>
        ELSE SubSeq(s, CHOOSE j \in keep : \A q \in keep : j <= q,
                       CHOOSE j \in keep : \A q \in keep : q <= j)

\* (tipo_credito or ""): None and the empty string both give "".
or_empty(opt) == IF opt.isNone THEN <<>> ELSE opt.s

libranza == <<"l", "i", "b", "r", "a", "n", "z", "a">>

(***************************************************************************)
(* seleccionar_tasa_aval (app.py:243-257)                                   *)
(***************************************************************************)
seleccionar_tasa_aval_no_strip(monto, tipo_credito, tipo_persona) ==
    IF lower(or_empty(tipo_credito)) = libranza THEN rate_aval_payroll
    ELSE IF DecGT(monto, AvalThreshold) THEN rate_aval_individualorcompany
    ELSE rate_aval_payroll

seleccionar_tasa_aval(monto, tipo_credito, tipo_persona) ==
    IF lower(strip(or_empty(tipo_credito))) = libranza THEN rate_aval_payroll
    ELSE IF DecGT(monto, AvalThreshold) THEN rate_aval_individualorcompany
    ELSE rate_aval_payroll

(***************************************************************************)
(* Dates (datetime.date, calendar.monthrange).  A date is [y, m, d].        *)
(***************************************************************************)
Date(y, m, d) == [y |-> y, m |-> m, d |-> d]

isleap(y) == y % 4 = 0 /\ (y % 100 # 0 \/ y % 400 = 0)

\* calendar.monthrange(y, m)[1]
mdays == <<31, 28, 31, 30, 31, 30, 31, 31, 30, 31, 30, 31>>
monthrange(y, m) == IF m = 2 /\ isleap(y) THEN 29 ELSE mdays[m]

\* date.toordinal(): days before the year, before the month, and the day.
days_before_month_table == <<0, 31, 59, 90, 120, 151, 181, 212, 243, 273, 304, 334>>
days_before_year(y) ==
    LET p == y - 1 IN p * 365 + (p \div 4) - (p \div 100) + (p \div 400)
days_before_month(y, m) ==
    days_before_month_table[m] + (IF m > 2 /\ isleap(y) THEN 1 ELSE 0)
toordinal(dt) == days_before_year(dt.y) + days_before_month(dt.y, dt.m) + dt.d

\* date.fromordinal(n): the 400-, 100-, 4- and 1-year cycles, then the month.
fromordinal(ord) ==
    LET n0 == ord - 1
        n400 == n0 \div 146097
        r400 == n0 % 146097
        n100 == r400 \div 36524
        r100 == r400 % 36524
        n4 == r100 \div 1461
        r4 == r100 % 1461
        n1 == r4 \div 365
        r1 == r4 % 365
        year == n400 * 400 + n100 * 100 + n4 * 4 + n1 + 1
    IN  IF n1 = 4 \/ n100 = 4 THEN Date(year - 1, 12, 31)
        ELSE LET month == CHOOSE m \in 1..12 :
                              /\ days_before_month(year, m) <= r1
                              /\ r1 < days_before_month(year, m) + monthrange(year, m)
             IN  Date(year, month, r1 - days_before_month(year, month) + 1)

\* d + timedelta(days=k)
plus_days(dt, ix) == fromordinal(toordinal(dt) + ix)

\* month_end (app.py:72-74)
month_end(dt) == Date(dt.y, dt.m, monthrange(dt.y, dt.m))

\* next_month_end (app.py:76-83)
next_month_end_norollover(dt) ==
    LET m == IF dt.m = 12 THEN 1 ELSE dt.m + 1
    IN  Date(dt.y, m, monthrange(dt.y, m))

next_month_end(dt) ==
    LET y == IF dt.m = 12 THEN dt.y + 1 ELSE dt.y
        m == IF dt.m = 12 THEN 1 ELSE dt.m + 1
    IN  Date(y, m, monthrange(y, m))

\* diff_days_exclusive (app.py:85-86)
diff_days_exclusive(first, end) == toordinal(end) - toordinal(first)

(***************************************************************************)
(* Rounding to the peso: Decimal.quantize(R) under ROUND_HALF_UP            *)
(* (app.py:57-58) of the rational num / den, den > 0; ties go away from 0.  *)
(***************************************************************************)
quantize_ratio(num, den) ==
    IF num >= 0 THEN (2 * num + den) \div (2 * den)
    ELSE -((2 * (-num) + den) \div (2 * den))

\* (aval_monthly * iva).quantize(R), app.py:502 and app.py:232
IvaUnits == DToNat(iva_rate.c)
iva_of(aval) == quantize_ratio(aval * IvaUnits, Pow10[1 - iva_rate.e])

(***************************************************************************)
(* (saldo * i0 * Decimal(dias) / Decimal(30)).quantize(R), app.py:514, 516  *)
(* and 555.  The product saldo * i0 * dias is exact; the quotient by 30 is  *)
(* a multiple of 1/300000 rounded to 28 digits, which cannot move it across *)
(* a half, so the result is the half-up rounding of saldo*183*dias/300000.  *)
(* The balance is split as q * 300000 + r to stay inside TLC's integers.    *)
(***************************************************************************)
InterestDen == 300000
BaseRateUnits == DToNat(base_rate_monthly.c)

interes(balance, dias) ==
    LET mult == BaseRateUnits * dias
        a == Abs(balance)
        q == a \div InterestDen
        r == a % InterestDen
        v == q * mult + ((r * mult + (InterestDen \div 2)) \div InterestDen)
    IN  IF balance < 0 THEN -v ELSE v

(***************************************************************************)
(* Bounds of the model and the inputs drawn from them.                      *)
(***************************************************************************)
MaxPeriods == 4
\* DetallesCredito.plazo_meses: le=60 (app.py:185), the product cap.
ProductCap == 60

\* req.periods: non-positive, short, a year, the cap and one past the cap.
SmallPeriods == 0..MaxPeriods
Periods == SmallPeriods \cup {12, ProductCap, ProductCap + 1}

\* req.amount: negative, zero, below one peso, small, around the threshold.
Amounts == {DecNeg(1, 0), DecPos(0, 0), DecPos(4, -1), DecPos(1, 0), DecPos(10, 0),
            DecPos(5000, 0), DecPos(1234567, 0), DecPos(5000000, 0),
            DecPos(50000004, -1), DecPos(5000001, 0)}

\* req.start_date: mid month, December 31, leap day, January 31, December 1,
\* a 30-day month end; None stands for an absent field.
StartDates == {Date(2024, 1, 15), Date(2023, 12, 31), Date(2024, 2, 29),
               Date(2023, 1, 31), Date(2024, 12, 1), Date(2023, 11, 30)}
NoDate == [isNone |-> TRUE]
SomeDate(dt) == [isNone |-> FALSE, dt |-> dt]
\* date.today() (app.py:498) is whatever day the request arrives.
Todays == {Date(2026, 11, 3), Date(2027, 12, 31)}

TiposCredito == {None, Str(<<>>), Str(libranza),
                 Str(<<" ", "L", "i", "b", "r", "a", "n", "z", "a", " ">>),
                 Str(<<"L", "I", "B", "R", "A", "N", "Z", "A">>),
                 Str(<<"p", "a", "r", "t", "i", "c", "u", "l", "a", "r">>)}
TiposPersona == {None, Str(<<"j", "u", "r", "i", "d", "i", "c", "a">>)}

Request(amount, periods, start_date, tipo_credito, tipo_persona) ==
    [amount |-> amount, periods |-> periods, start_date |-> start_date,
     tipo_credito |-> tipo_credito, tipo_persona |-> tipo_persona]

\* Every tag on short schedules; every date and period count on two tags.
TagRequests ==
    {Request(a, p, SomeDate(Date(2024, 1, 15)), tc, tp) :
        a \in Amounts, p \in SmallPeriods, tc \in TiposCredito, tp \in TiposPersona}
DateRequests ==
    {Request(a, p, sd, tc, None) :
        a \in Amounts, p \in Periods,
        sd \in {SomeDate(dt) : dt \in StartDates} \cup {NoDate},
        tc \in {None, Str(<<" ", "L", "i", "b", "r", "a", "n", "z", "a", " ">>)}}
Requests == TagRequests \cup DateRequests

(***************************************************************************)
(* PMT (app.py:91-96).  The denominator 1 - (1 + i) ** -n depends on the    *)
(* rate and the period count alone and the payment on (principal, i, n), so *)
(* both are tabulated once over the inputs of the model; every entry is the *)
(* value the Decimal arithmetic above computes.                             *)
(***************************************************************************)
Rates == {base_rate_monthly, rate_aval_payroll, rate_aval_individualorcompany}
PositivePeriods == {p \in Periods : p > 0}

\* den = Decimal(1) - (Decimal(1) + i) ** Decimal(-n)   (app.py:95)
pmt_den(i, cnt) ==
    DecOneMinus(DecPowNeg(DecAddOne(i), cnt, Prec, Rounding), Prec, Rounding)

DenTable == [key \in Rates \X PositivePeriods |-> pmt_den(key[1], key[2])] @@ <<>>

pmt(principal, i, cnt) ==
    IF i.c = <<>> THEN DecQuantize(DecDiv(principal, Dec(cnt, 0), Prec, Rounding))
    ELSE DecQuantize(DecDiv([c |-> DMul(principal.c, i.c), e |-> principal.e + i.e],
                            DenTable[<<i, cnt>>], Prec, Rounding))

\* The principals pmt is applied to: the amounts validation accepts, as sent
\* (calcular_cuota_mensual) and rounded to the peso (simulate).
Zero == DecPos(0, 0)
Accepted == {a \in Amounts : DecGT(a, Zero)}
Principals == Accepted \cup {DecPos(DecQuantize(a), 0) : a \in Accepted}

\* ... at the rates seleccionar_tasa_aval can give for the principal.
PmtKeys ==
    {key \in Principals \X Rates \X PositivePeriods :
        key[2] # rate_aval_individualorcompany \/ DecGT(key[1], AvalThreshold)}

PmtTable == [key \in PmtKeys |-> pmt(key[1], key[2], key[3])] @@ <<>>

pmt_of(principal, i, cnt) == PmtTable[<<principal, i, cnt>>]

(***************************************************************************)
(* calcular_cuota_mensual (app.py:223-234)                                  *)
(***************************************************************************)
\* app.py:231-234: aval, iva and the total, from the two payments
cuota_total(pay_base, pay_with_aval) ==
    LET aval == pay_with_aval - pay_base
        iva == iva_of(aval)
    IN  pay_base + aval + iva

\* app.py:224-229: i0, the selected rate and the two payments
calcular_cuota_mensual(monto, plazo, tipo_credito, tipo_persona) ==
    cuota_total(pmt_of(monto, base_rate_monthly, plazo),
                pmt_of(monto, seleccionar_tasa_aval(monto, tipo_credito, tipo_persona),
                       plazo))

(***************************************************************************)
(* /solicitar-credito (app.py:596-685): the payload, its validation by the  *)
(* SolicitudCredito model and the contact link.  Of the record only the     *)
(* fields the handler reads are kept: the telephone, the details of the     *)
(* credit, the three consents and the date of the application.              *)
(***************************************************************************)
Digits == {"0", "1", "2", "3", "4", "5", "6", "7", "8", "9"}

\* chained str.replace(ch, '') over one-character strings
remove_chars(chars, drop) == SelectSeq(chars, LAMBDA ch : ch \notin drop)

\* str.isdigit(): not empty and digits only
isdigit(chars) == chars # <<>> /\ \A j \in 1..Len(chars) : chars[j] \in Digits

\* DatosPersonales.validar_telefono (app.py:154-160): the value stored
validar_telefono(chars) == remove_chars(chars, {" ", "-", "(", ")", "+"})

\* telefono: min_length=10, max_length=15 on the text as sent (app.py:140),
\* then the validator (app.py:157-158)
telefono_ok(chars) ==
    Len(chars) >= 10 /\ Len(chars) <= 15 /\ isdigit(validar_telefono(chars))

\* DetallesCredito (app.py:183-185): monto_solicitado gt 0, plazo_meses
\* PositiveInt with le=60
detalles_ok(dc) ==
    DecGT(dc.monto_solicitado, Zero) /\ dc.plazo_meses > 0 /\ dc.plazo_meses <= ProductCap

\* SolicitudCredito.validar_consentimientos (app.py:206-211)
consentimientos_ok(sol) ==
    /\ sol.acepta_tratamiento_datos
    /\ sol.acepta_terminos_condiciones
    /\ sol.acepta_consulta_centrales_riesgo

\* SolicitudCredito(**data) (app.py:613) raises nothing
solicitud_ok(sol) ==
    telefono_ok(sol.datos_personales.telefono) /\ detalles_ok(sol.detalles_credito)
        /\ consentimientos_ok(sol)

\* startswith('57')
startswith_57(chars) == Len(chars) >= 2 /\ chars[1] = "5" /\ chars[2] = "7"

\* generar_whatsapp_url (app.py:236-241): https://wa.me/{n}?text={msg}, kept
\* as the number n and the id that ends the message.
generar_whatsapp_url(telefono, id) ==
    LET digits == remove_chars(telefono, {" ", "-", "(", ")"})
    IN  [n |-> IF startswith_57(digits) THEN digits ELSE <<"5", "7">> \o digits,
         id |-> id]

\* The three documents, in the order of their upload (app.py:638-651)
Docs == <<"cedula", "comprobante_ingresos", "FormatoSolicitud">>

\* Payloads: amounts around the threshold, period counts around the cap,
\* product tags, consents given and withheld, telephones with and without
\* the country code and one that is not a number; NoPayload is a request
\* without the 'payload' field.
Montos == {DecPos(0, 0), DecPos(5000, 0), DecPos(5000000, 0), DecPos(50000004, -1),
           DecPos(5000001, 0)}
Plazos == {0, 1, 12, ProductCap, ProductCap + 1}
TiposSolicitud == {None, Str(libranza),
                   Str(<<" ", "L", "i", "b", "r", "a", "n", "z", "a", " ">>),
                   Str(<<"p", "a", "r", "t", "i", "c", "u", "l", "a", "r">>)}
Consentimientos == {<<TRUE, TRUE, TRUE>>, <<FALSE, TRUE, TRUE>>, <<TRUE, TRUE, FALSE>>}
Telefonos == {<<"3", "0", "0", "1", "2", "3", "4", "5", "6", "7">>,
              <<"+", "5", "7", " ", "3", "0", "0", "-", "1", "2", "3", "4", "5", "6", "7">>,
              <<"3", "0", "0", "1", "2", "3", "4", "5", "6", "x">>}
Ids == {"3F2A9C1B", "00000000"}

DetallesCredito(monto, plazo, cuota_front, tipo_credito, tipo_persona) ==
    [monto_solicitado |-> monto, plazo_meses |-> plazo, cuota_estimada |-> cuota_front,
     tipo_credito |-> tipo_credito, tipo_persona |-> tipo_persona]

SolicitudCredito(telefono, dc, acepta, fecha) ==
    [datos_personales |-> [telefono |-> telefono], detalles_credito |-> dc,
     acepta_tratamiento_datos |-> acepta[1], acepta_terminos_condiciones |-> acepta[2],
     acepta_consulta_centrales_riesgo |-> acepta[3], fecha_solicitud |-> fecha]

NoPayload == [isNone |-> TRUE]
SomePayload(sol) == [isNone |-> FALSE, data |-> sol]

Payloads ==
    {NoPayload} \cup
    {SomePayload(SolicitudCredito(tel, DetallesCredito(m, pl, None, tc, None), ac, NoDate)) :
        tel \in Telefonos, m \in Montos, pl \in Plazos, tc \in TiposSolicitud,
        ac \in Consentimientos}


(***************************************************************************)
(* POST /simulate (app.py:490-593): one request from arrival to response.   *)
(* pc is the position of the handler: "received" (body not yet validated),  *)
(* "rejected" (422 from the SimulateRequest model), "setup" (line 493),     *)
(* "row1" (line 509), "loop" (line 550), "returned" (line 585) and          *)
(* "quoted" (calcular_cuota_mensual applied to the same inputs).            *)
(***************************************************************************)
VARIABLES req, pc, P, n, i1, start, aval_monthly, iva_aval, payment_monthly,
          schedule, saldo, dias_0, prev_final, k, response, cuota

(***************************************************************************)
(* The state of solicitar_credito (app.py:596-685): the payload received,   *)
(* the position of the handler in step, its locals solicitud, id_solicitud, *)
(* cuota_estimada and whatsapp_url, the Drive folder and the sheet it       *)
(* writes to, and its response.  step is "idle" (no application), then      *)
(* "received", "validated" (line 617), "estimated" (line 625), "folder"     *)
(* (line 635), "uploaded" (line 651), "saved" (line 665), "done" (line 676) *)
(* or "failed" (an HTTPException was raised).                               *)
(***************************************************************************)
VARIABLES payload, step, solicitud, id_solicitud, cuota_estimada, drive, sheet,
          whatsapp_url, solicitud_response

simvars == <<req, pc, P, n, i1, start, aval_monthly, iva_aval, payment_monthly,
             schedule, saldo, dias_0, prev_final, k, response, cuota>>

solvars == <<payload, step, solicitud, id_solicitud, cuota_estimada, drive, sheet,
             whatsapp_url, solicitud_response>>

vars == <<simvars, solvars>>

NoResponse == [status |-> 0]
Unset == Date(1, 1, 1)

\* An Optional value that is present
Some(val) == [isNone |-> FALSE, val |-> val]
NoRequest == Request(Zero, 0, NoDate, None, None)
NoSolicitud == [isNone |-> TRUE]
EmptyDrive == [folders |-> <<>>, files |-> <<>>]

\* One request arrives: a body for /simulate or a form for /solicitar-credito.
Init ==
    /\ \/ req \in Requests /\ pc = "received" /\ payload = NoPayload /\ step = "idle"
       \/ req = NoRequest /\ pc = "idle" /\ payload \in Payloads /\ step = "received"
    /\ solicitud = NoSolicitud /\ id_solicitud = "" /\ cuota_estimada = None
    /\ drive = EmptyDrive /\ sheet = <<>> /\ whatsapp_url = None
    /\ solicitud_response = NoResponse
    /\ P = 0 /\ n = 0 /\ i1 = Zero /\ start = Unset
    /\ aval_monthly = 0 /\ iva_aval = 0 /\ payment_monthly = 0
    /\ schedule = <<>> /\ saldo = 0 /\ dias_0 = 0 /\ prev_final = Unset /\ k = 0
    /\ response = NoResponse
    /\ cuota = 0

\* SimulateRequest (app.py:101-106): amount gt 0, periods PositiveInt.
valid_request(r) == DecGT(r.amount, Zero) /\ r.periods > 0

Validate ==
    /\ pc = "received"
    /\ IF valid_request(req)
       THEN pc' = "setup" /\ response' = response
       ELSE pc' = "rejected" /\ response' = [status |-> 422]
    /\ UNCHANGED <<req, P, n, i1, start, aval_monthly, iva_aval, payment_monthly,
                   schedule, saldo, dias_0, prev_final, k, cuota>>
    /\ UNCHANGED solvars

\* app.py:493-507.  Each local of the handler is bound once, in the order of
\* its assignment, by \E over the one value it is assigned.
Setup ==
    /\ pc = "setup"
    /\ \E today \in Todays :
       \E P_ \in {DecQuantize(req.amount)} :
       \E principal \in {DecPos(P_, 0)} :
       \E rate \in {seleccionar_tasa_aval(principal, req.tipo_credito, req.tipo_persona)} :
       \E pay_base \in {pmt_of(principal, base_rate_monthly, req.periods)} :
       \E pay_with_aval \in {pmt_of(principal, rate, req.periods)} :
       \E aval \in {pay_with_aval - pay_base} :
       \E iva \in {iva_of(aval)} :
            /\ P' = P_
            /\ n' = req.periods
            /\ i1' = rate
            /\ start' = IF req.start_date.isNone THEN today ELSE req.start_date.dt
            /\ aval_monthly' = aval
            /\ iva_aval' = iva
            /\ payment_monthly' = pay_base + aval + iva
            /\ schedule' = <<>>
            /\ saldo' = P_
    /\ pc' = "row1"
    /\ UNCHANGED <<req, dias_0, prev_final, k, response, cuota>>
    /\ UNCHANGED solvars

\* ScheduleRow (app.py:108-124).  tasa_usura and tasa_interes are the same
\* constants in every row and are left out.
ScheduleRow(cuota_no, fecha_inicial, fin_mes_primera_cuota, fecha_final, dias, saldo_inicial, valor_cuota_mensual, abono_capital, aval, iva, interes_primera_cuota, intereses, saldo_final) ==
    [cuota_no |-> cuota_no, fecha_inicial |-> fecha_inicial,
     fin_mes_primera_cuota |-> fin_mes_primera_cuota, fecha_final |-> fecha_final,
     mes_anio |-> <<fecha_final.m, fecha_final.y>>, dias |-> dias,
     saldo_inicial |-> saldo_inicial, valor_cuota_mensual |-> valor_cuota_mensual,
     abono_capital |-> abono_capital, aval |-> aval, iva_aval |-> iva,
     interes_primera_cuota |-> interes_primera_cuota, intereses |-> intereses,
     saldo_final |-> saldo_final]

\* payment_first_month = payment_monthly - interes_tramo_restante (app.py:519)
payment_first_month_flat(payment, interes_tramo_restante) == payment

payment_first_month(payment, interes_tramo_restante) ==
    payment - interes_tramo_restante

\* The two clamps of row 1 (app.py:521-524).
clamp_abono_1(abono, balance) ==
    LET floored == IF abono < 0 THEN 0 ELSE abono
    IN  IF floored > balance THEN balance ELSE floored

\* app.py:509-549
FirstRow ==
    /\ pc = "row1"
    /\ \E fin_mes_desembolso \in {month_end(start)} :
       \E fecha_final_1 \in {next_month_end(start)} :
       \E dias0 \in {diff_days_exclusive(start, fin_mes_desembolso)} :
       \E dias_total_1 \in {diff_days_exclusive(start, fecha_final_1)} :
       \E interes_primera \in {interes(saldo, dias0)} :
       \E interes_30 \in {interes(saldo, 30)} :
       \E interes_tramo_restante \in {interes_30 - interes_primera} :
       \E pfm \in {payment_first_month(payment_monthly, interes_tramo_restante)} :
       \E abono_cap_1 \in {clamp_abono_1(pfm - aval_monthly - iva_aval - interes_primera,
                                         saldo)} :
       \E saldo_1 \in {saldo - abono_cap_1} :
       \E valor_cuota_1 \in {abono_cap_1 + aval_monthly + iva_aval + interes_primera} :
            /\ dias_0' = dias0
            /\ saldo' = saldo_1
            /\ schedule' = Append(schedule,
                   ScheduleRow(1, start, SomeDate(fin_mes_desembolso), fecha_final_1,
                               dias_total_1, P, valor_cuota_1, abono_cap_1,
                               aval_monthly, iva_aval, interes_primera, 0, saldo_1))
            /\ prev_final' = fecha_final_1
    /\ k' = 2
    /\ pc' = "loop"
    /\ UNCHANGED <<req, P, n, i1, start, aval_monthly, iva_aval, payment_monthly,
                   response, cuota>>
    /\ UNCHANGED solvars

\* range(2, n + 1) (app.py:550)
loop_range_short(periods) == 2..(periods - 1)

loop_range(periods) == 2..periods

\* fecha_inicial_k = prev_final + timedelta(days=1) (app.py:551)
fecha_inicial_k_same_day(prev) == prev

fecha_inicial_k(prev) == plus_days(prev, 1)

\* abono_cap_k with its floor and the override of the last row (app.py:556-560)
abono_cap_k_no_override(payment, aval, iva, interes_k, balance, cuota_no, periods) ==
    LET abono == payment - aval - iva - interes_k
    IN  IF abono < 0 THEN 0 ELSE abono

abono_cap_k(payment, aval, iva, interes_k, balance, cuota_no, periods) ==
    LET abono == payment - aval - iva - interes_k
        floored == IF abono < 0 THEN 0 ELSE abono
    IN  IF cuota_no = periods THEN balance ELSE floored

\* saldo_inicial=schedule[-1].saldo_final (app.py:574)
saldo_inicial_k_first(rows) == rows[1].saldo_final

saldo_inicial_k(rows) == rows[Len(rows)].saldo_final

\* valor_cuota_k = abono_cap_k + interes_k + aval_monthly + iva_aval (app.py:563)
valor_cuota_k_no_interest(abono, interes_k, aval, iva) == abono + aval + iva

valor_cuota_k(abono, interes_k, aval, iva) == abono + interes_k + aval + iva

\* One iteration of the loop (app.py:550-583)
LoopRow ==
    /\ pc = "loop"
    /\ k \in loop_range(n)
    /\ \E fecha_ini \in {fecha_inicial_k(prev_final)} :
       \E fecha_final_k \in {month_end(fecha_ini)} :
       \E dias_k \in {diff_days_exclusive(fecha_ini, fecha_final_k)} :
       \E interes_k \in {interes(saldo, dias_k)} :
       \E abono \in {abono_cap_k(payment_monthly, aval_monthly, iva_aval, interes_k,
                                 saldo, k, n)} :
       \E saldo_k \in {saldo - abono} :
       \E valor_cuota \in {valor_cuota_k(abono, interes_k, aval_monthly, iva_aval)} :
            /\ saldo' = saldo_k
            /\ schedule' = Append(schedule,
                   ScheduleRow(k, fecha_ini, NoDate, fecha_final_k, dias_k,
                               saldo_inicial_k(schedule), valor_cuota, abono,
                               aval_monthly, iva_aval, 0, interes_k, saldo_k))
            /\ prev_final' = fecha_final_k
    /\ k' = k + 1
    /\ UNCHANGED <<req, pc, P, n, i1, start, aval_monthly, iva_aval, payment_monthly,
                   dias_0, response, cuota>>
    /\ UNCHANGED solvars

\* The loop is exhausted: return SimulateResponse(...) (app.py:585-593)
Return ==
    /\ pc = "loop"
    /\ k \notin loop_range(n)
    /\ response' = [status |-> 200, amount |-> P, periods |-> n,
                    payment_monthly |-> payment_monthly, schedule |-> schedule]
    /\ pc' = "returned"
    /\ UNCHANGED <<req, P, n, i1, start, aval_monthly, iva_aval, payment_monthly,
                   schedule, saldo, dias_0, prev_final, k, cuota>>
    /\ UNCHANGED solvars

\* calcular_cuota_mensual (app.py:223-234) on the inputs of the request.
Quote ==
    /\ pc = "returned"
    /\ cuota' = calcular_cuota_mensual(req.amount, req.periods, req.tipo_credito,
                                       req.tipo_persona)
    /\ pc' = "quoted"
    /\ UNCHANGED <<req, P, n, i1, start, aval_monthly, iva_aval, payment_monthly,
                   schedule, saldo, dias_0, prev_final, k, response>>
    /\ UNCHANGED solvars

\* except HTTPException: raise / except Exception: 500 (app.py:678-685)
HTTPException(code) == [status |-> code]

\* app.py:606-617: the payload is read, parsed and validated, and the id drawn.
Parse ==
    /\ step = "received"
    /\ IF payload.isNone
       THEN /\ solicitud_response' = HTTPException(422)
            /\ step' = "failed"
            /\ UNCHANGED <<solicitud, id_solicitud>>
       ELSE IF ~solicitud_ok(payload.data)
       THEN /\ solicitud_response' = HTTPException(500)
            /\ step' = "failed"
            /\ UNCHANGED <<solicitud, id_solicitud>>
       ELSE \E id \in Ids, now \in Todays :
            /\ solicitud' = [payload.data EXCEPT
                                 !.datos_personales.telefono = validar_telefono(@),
                                 !.fecha_solicitud = IF @.isNone THEN SomeDate(now) ELSE @]
            /\ id_solicitud' = id
            /\ step' = "validated"
            /\ UNCHANGED solicitud_response
    /\ UNCHANGED <<payload, cuota_estimada, drive, sheet, whatsapp_url>>
    /\ UNCHANGED simvars

\* app.py:620-625: calcular_cuota_mensual is called with the amount and the
\* period count only, so both tags take their default None.
Estimate ==
    /\ step = "validated"
    /\ \E est \in {calcular_cuota_mensual(solicitud.detalles_credito.monto_solicitado,
                                          solicitud.detalles_credito.plazo_meses,
                                          None, None)} :
            /\ cuota_estimada' = Some(est)
            /\ solicitud' = [solicitud EXCEPT !.detalles_credito.cuota_estimada = Some(est)]
    /\ step' = "estimated"
    /\ UNCHANGED <<payload, id_solicitud, drive, sheet, whatsapp_url, solicitud_response>>
    /\ UNCHANGED simvars

\* app.py:628-635: the folder of the application; a failing Drive call raises.
CaseFolder ==
    /\ step = "estimated"
    /\ \E ok \in BOOLEAN :
           IF ok
           THEN /\ drive' = [drive EXCEPT !.folders = Append(@, id_solicitud)]
                /\ step' = "folder"
                /\ UNCHANGED solicitud_response
           ELSE /\ step' = "failed"
                /\ solicitud_response' = HTTPException(500)
                /\ UNCHANGED drive
    /\ UNCHANGED <<payload, solicitud, id_solicitud, cuota_estimada, sheet, whatsapp_url>>
    /\ UNCHANGED simvars

\* app.py:638-651: the next of the three uploads.  upload_to_drive
\* (app.py:468-476) creates the file and then reads it back, so a failing
\* upload may or may not leave the file in the folder.
Upload ==
    /\ step = "folder"
    /\ Len(drive.files) < Len(Docs)
    /\ \E ok \in BOOLEAN, created \in BOOLEAN :
       \E doc \in {Docs[Len(drive.files) + 1]} :
           IF ok
           THEN /\ created
                /\ drive' = [drive EXCEPT !.files = Append(@, doc)]
                /\ step' = IF Len(drive.files) + 1 = Len(Docs) THEN "uploaded" ELSE "folder"
                /\ UNCHANGED solicitud_response
           ELSE /\ drive' = IF created THEN [drive EXCEPT !.files = Append(@, doc)] ELSE drive
                /\ step' = "failed"
                /\ solicitud_response' = HTTPException(500)
    /\ UNCHANGED <<payload, solicitud, id_solicitud, cuota_estimada, sheet, whatsapp_url>>
    /\ UNCHANGED simvars

\* fila (app.py:374-418), the columns that come from the handler
fila(sol, id, files) ==
    [id_solicitud |-> id, fecha_solicitud |-> sol.fecha_solicitud,
     telefono |-> sol.datos_personales.telefono,
     monto_solicitado |-> sol.detalles_credito.monto_solicitado,
     plazo_meses |-> sol.detalles_credito.plazo_meses,
     cuota_estimada |-> sol.detalles_credito.cuota_estimada,
     estado |-> "NUEVO", carpeta |-> id, documentos |-> files]

\* if not ok: raise HTTPException(500) (app.py:661-665)
save_outcome_ignored(ok) == "saved"

save_outcome(ok) == IF ok THEN "saved" ELSE "failed"

\* app.py:654-665: guardar_en_sheets (app.py:353-425) appends the row and
\* returns True, or catches whatever went wrong and returns False.
Save ==
    /\ step = "uploaded"
    /\ \E ok \in BOOLEAN :
         /\ sheet' = IF ok THEN Append(sheet, fila(solicitud, id_solicitud, drive.files))
                     ELSE sheet
         /\ step' = save_outcome(ok)
    /\ solicitud_response' = IF step' = "failed" THEN HTTPException(500)
                             ELSE solicitud_response
    /\ UNCHANGED <<payload, solicitud, id_solicitud, cuota_estimada, drive, whatsapp_url>>
    /\ UNCHANGED simvars

\* app.py:668-676: the contact link and the SolicitudResponse.
Respond ==
    /\ step = "saved"
    /\ \E url \in {generar_whatsapp_url(solicitud.datos_personales.telefono, id_solicitud)} :
         /\ whatsapp_url' = Some(url)
         /\ solicitud_response' = [status |-> 200, id_solicitud |-> id_solicitud,
                                   cuota_estimada |-> cuota_estimada.val,
                                   whatsapp_url |-> Some(url)]
    /\ step' = "done"
    /\ UNCHANGED <<payload, solicitud, id_solicitud, cuota_estimada, drive, sheet>>
    /\ UNCHANGED simvars

Next ==
    \/ Validate \/ Setup \/ FirstRow \/ LoopRow \/ Return \/ Quote
    \/ Parse \/ Estimate \/ CaseFolder \/ Upload \/ Save \/ Respond

Spec == Init /\ [][Next]_vars

(***************************************************************************)
(* Properties.                                                              *)
(***************************************************************************)
Returned == response.status = 200
LastRow == schedule[Len(schedule)]
AbonoSum == SumSeq(Tuple([j \in 1..Len(schedule) |-> schedule[j].abono_capital]))

\* C1: when a request with principal > 0 and 1 <= periods <= 60 has been
\* answered, the principal portions of its rows add up to the principal and
\* the closing balance of the last row is 0 (one-row schedules included).
C1_PrincipalFullyRepaid ==
    (Returned /\ P > 0 /\ n >= 1 /\ n <= ProductCap)
        => (AbonoSum = P /\ LastRow.saldo_final = 0)

\* C1 witness: a 60-row schedule answered, its last row repaying what was owed.
C1_Witness ==
    /\ Returned /\ P > 0 /\ n = ProductCap /\ Len(schedule) = ProductCap
    /\ LastRow.saldo_inicial > 0
    /\ LastRow.abono_capital = LastRow.saldo_inicial
    /\ LastRow.saldo_final = 0

\* C2: in every schedule, also while it is being built, row 1 opens with the
\* principal and every later row opens with the closing balance of the row
\* before it.
C2_OpeningBalanceChain ==
    \A j \in 1..Len(schedule) :
        schedule[j].saldo_inicial = IF j = 1 THEN P ELSE schedule[j - 1].saldo_final

\* C2 witness: a third row that opens with the balance row 2 closed with,
\* which is not the balance row 1 closed with.
C2_Witness ==
    /\ Len(schedule) >= 3
    /\ schedule[3].saldo_inicial = schedule[2].saldo_final
    /\ schedule[2].saldo_final # schedule[1].saldo_final

\* The spellings of the payroll-deduction tag among the inputs: "libranza" in
\* any case, with or without blanks around it.
LibranzaTags == {Str(libranza),
                 Str(<<" ", "L", "i", "b", "r", "a", "n", "z", "a", " ">>),
                 Str(<<"L", "I", "B", "R", "A", "N", "Z", "A">>)}

\* C3: the rate selected for a request is the payroll rate when the product
\* tag is a spelling of "libranza", whatever the principal; for any other tag,
\* None and "" included, it is the individual/company rate above 5,000,000
\* and the payroll rate at or below it; the person tag plays no part.
C3_RateSelection ==
    pc \in {"row1", "loop", "returned", "quoted"}
        => i1 = IF req.tipo_credito \in LibranzaTags THEN rate_aval_payroll
                ELSE IF P > 5000000 THEN rate_aval_individualorcompany
                ELSE rate_aval_payroll

\* C3 witness: exactly 5,000,000 on a tag that is not libranza, with a person
\* tag, gets the payroll rate.
C3_Witness ==
    /\ pc = "row1" /\ P = 5000000
    /\ req.tipo_credito \notin LibranzaTags /\ ~req.tipo_credito.isNone
    /\ ~req.tipo_persona.isNone
    /\ i1 = rate_aval_payroll

\* C4: for every accepted amount, whole or fractional, every period count
\* and every pair of tags, calcular_cuota_mensual returns the payment_monthly
\* that simulate reports for the same inputs.
C4_QuoteEqualsSimulate ==
    pc = "quoted" => cuota = response.payment_monthly

\* C5: the schedule builder runs only on a principal > 0, as it sees it after
\* rounding, and a period count in 1..60; any other request is rejected
\* before a payment or a row is computed.
C5_BuilderOnlyOnValid ==
    pc \in {"row1", "loop", "returned", "quoted"}
        => (P > 0 /\ n >= 1 /\ n <= ProductCap)

\* A step of the builder, from the first line of the handler to its return.
BuilderStep == Setup \/ FirstRow \/ LoopRow \/ Return

\* C6: a response carries exactly n rows numbered 1, 2, .., n in this order,
\* never fewer; and the builder terminates with it: while in the loop it has
\* emitted rows 1..k-1 with k at most n + 1, and until it has returned it is
\* never stuck, its next step being always possible.
C6_CompleteAndTerminates ==
    /\ Returned => /\ Len(response.schedule) = n
                   /\ \A j \in 1..n : response.schedule[j].cuota_no = j
    /\ pc = "loop" => /\ Len(schedule) = k - 1
                      /\ k <= n + 1
                      /\ \A j \in 1..Len(schedule) : schedule[j].cuota_no = j
    /\ pc \in {"setup", "row1", "loop"} => ENABLED BuilderStep

\* C6 witness: a response with all 60 rows of a 60-period request.
C6_Witness ==
    /\ Returned /\ n = ProductCap /\ Len(response.schedule) = ProductCap
    /\ response.schedule[ProductCap].cuota_no = ProductCap

\* Day-of-month arithmetic, without ordinals: the month after a date's month,
\* its year, and the length of a month by the Gregorian leap rule.
MonthAfter(dt) == IF dt.m = 12 THEN 1 ELSE dt.m + 1
YearOfMonthAfter(dt) == IF dt.m = 12 THEN dt.y + 1 ELSE dt.y
LengthOfMonth(y, m) ==
    IF m = 2 THEN (IF y % 400 = 0 \/ (y % 4 = 0 /\ y % 100 # 0) THEN 29 ELSE 28)
    ELSE IF m \in {4, 6, 9, 11} THEN 30 ELSE 31

\* C7: row 1 ends on the last day of the month after the start month (January
\* of the next year for a December start, February 29 in a leap year); the
\* stub day count is the number of days left in the start month, 0 on a
\* month-end; the day count of row 1 is the days from the start to its end.
C7_FirstRowDates ==
    Len(schedule) >= 1 =>
        LET row == schedule[1]
            left == LengthOfMonth(start.y, start.m) - start.d
            y2 == YearOfMonthAfter(start)
            m2 == MonthAfter(start)
        IN  /\ row.fecha_inicial = start
            /\ row.fecha_final = Date(y2, m2, LengthOfMonth(y2, m2))
            /\ row.fin_mes_primera_cuota = SomeDate(Date(start.y, start.m, start.d + left))
            /\ dias_0 = left
            /\ row.dias = left + LengthOfMonth(y2, m2)

\* C7 witness: a start on December 31: no stub days, row 1 ends on January 31
\* of the next year, 31 days later.
C7_Witness ==
    /\ Len(schedule) >= 1
    /\ start = Date(2023, 12, 31)
    /\ dias_0 = 0
    /\ schedule[1].fecha_final = Date(2024, 1, 31)
    /\ schedule[1].dias = 31

\* dt1 is earlier than dt2
Earlier(dt1, dt2) ==
    \/ dt1.y < dt2.y
    \/ dt1.y = dt2.y /\ dt1.m < dt2.m
    \/ dt1.y = dt2.y /\ dt1.m = dt2.m /\ dt1.d < dt2.d

\* C8: every row after the first starts the day after the row before it ended
\* and ends on the month-end of its start; so every row ends on a month-end,
\* consecutive rows cover consecutive whole months, and the end dates grow,
\* across a year boundary too.
C8_ConsecutiveMonths ==
    /\ \A j \in 1..Len(schedule) :
           schedule[j].fecha_final.d =
               LengthOfMonth(schedule[j].fecha_final.y, schedule[j].fecha_final.m)
    /\ \A j \in 2..Len(schedule) :
           LET before == schedule[j - 1].fecha_final
               row == schedule[j]
           IN  /\ row.fecha_inicial = Date(YearOfMonthAfter(before), MonthAfter(before), 1)
               /\ row.fecha_final.y = row.fecha_inicial.y
               /\ row.fecha_final.m = row.fecha_inicial.m
               /\ Earlier(before, row.fecha_inicial)
               /\ Earlier(before, row.fecha_final)

\* C8 witness: a row that ends on December 31 followed by the row of January
\* of the next year.
C8_Witness ==
    \E j \in 2..Len(schedule) :
        /\ schedule[j - 1].fecha_final = Date(2023, 12, 31)
        /\ schedule[j].fecha_inicial = Date(2024, 1, 1)
        /\ schedule[j].fecha_final = Date(2024, 1, 31)

\* C9: the day count of every row after the first is the inclusive span from
\* its start to its end, the number of days of the month it covers.
C9_InclusiveDayCount ==
    \A j \in 2..Len(schedule) :
        schedule[j].dias = LengthOfMonth(schedule[j].fecha_final.y, schedule[j].fecha_final.m)

\* C10: in row 1 the principal portion is the contractual payment less the
\* interest shortfall, the fee, the tax and the stub interest, kept within
\* 0..principal; the stub interest is round(principal * rate * stub days / 30)
\* and the shortfall round(principal * rate) less the stub interest; the
\* charged payment is portion + fee + tax + stub interest and the closing
\* balance is principal - portion.
C10_FirstRowAmounts ==
    Len(schedule) >= 1 =>
        LET row == schedule[1]
            stub == interes(P, dias_0)
            shortfall == interes(P, 30) - stub
            formula == payment_monthly - shortfall - aval_monthly - iva_aval - stub
            portion == Max(0, Min(P, formula))
        IN  /\ row.interes_primera_cuota = stub
            /\ row.abono_capital = portion
            /\ row.valor_cuota_mensual = portion + aval_monthly + iva_aval + stub
            /\ row.saldo_final = P - portion
            /\ row.aval = aval_monthly /\ row.iva_aval = iva_aval

\* C10 witness: a first row with a positive shortfall whose principal portion
\* lies strictly between 0 and the principal.
C10_Witness ==
    /\ Len(schedule) >= 1
    /\ interes(P, 30) - schedule[1].interes_primera_cuota > 0
    /\ schedule[1].abono_capital > 0
    /\ schedule[1].abono_capital < P
    /\ schedule[1].saldo_final = P - schedule[1].abono_capital

\* C11: in every row k with 1 < k < n the interest is
\* round(opening balance * base rate * day count of the row / 30), the
\* principal portion is the contractual payment less the fee, the tax and
\* that interest, floored at 0, and the charged payment is the contractual
\* payment; only row 1 and row n may be charged anything else.
C11_MiddleRows ==
    \A j \in 2..(Len(schedule) - 1) :
        j < n =>
            LET row == schedule[j]
                interes_j == interes(row.saldo_inicial, row.dias)
            IN  /\ row.intereses = interes_j
                /\ row.abono_capital =
                       Max(0, payment_monthly - aval_monthly - iva_aval - interes_j)
                /\ row.valor_cuota_mensual = payment_monthly
                /\ row.aval = aval_monthly /\ row.iva_aval = iva_aval

\* C11 witness: an answered schedule of three or more rows whose second row
\* carries interest and principal and is charged the contractual payment,
\* while row 1 is charged something else.
C11_Witness ==
    /\ Returned /\ n >= 3
    /\ schedule[2].intereses > 0
    /\ schedule[2].abono_capital > 0
    /\ schedule[2].valor_cuota_mensual = payment_monthly
    /\ schedule[1].valor_cuota_mensual # payment_monthly

\* What the application has caused so far, read off the state.
Estimated == ~cuota_estimada.isNone
AllUploaded == drive.files = Docs
Appended == sheet # <<>>
LinkGenerated == ~whatsapp_url.isNone
Succeeded == solicitud_response.status = 200
ValidationFailed == payload.isNone \/ ~solicitud_ok(payload.data)

\* C12: solicitar_credito acts in a fixed order: nothing is computed before
\* the payload has been validated; a document is uploaded only after the
\* estimated payment has been computed, and the documents go up in their
\* order; the record is appended only after all three uploads, once, with
\* the payment stamped on it; the contact link is generated and the success
\* response returned only after the append succeeded.  When validation fails
\* nothing is computed, uploaded or appended; when the append fails the
\* request ends with an error response and no contact link.
C12_SubmissionOrder ==
    /\ Estimated => solicitud # NoSolicitud /\ ~payload.isNone /\ solicitud_ok(payload.data)
    /\ (drive.folders # <<>> \/ drive.files # <<>>) => Estimated
    /\ drive.files = SubSeq(Docs, 1, Len(drive.files))
    /\ Appended => /\ AllUploaded
                   /\ Len(sheet) = 1
                   /\ sheet[1].cuota_estimada = cuota_estimada
                   /\ sheet[1].id_solicitud = id_solicitud
    /\ LinkGenerated => Appended
    /\ Succeeded => /\ LinkGenerated /\ Appended
                    /\ solicitud_response.whatsapp_url = whatsapp_url
    /\ step = "done" <=> Succeeded
    /\ ValidationFailed => /\ ~Estimated /\ drive = EmptyDrive /\ ~Appended
                           /\ ~LinkGenerated /\ ~Succeeded
    /\ (step \in {"saved", "failed"} /\ AllUploaded /\ ~Appended)
           => /\ step = "failed"
              /\ solicitud_response.status = 500
              /\ ~LinkGenerated

\* C12 witness: an application that went through every step: validated,
\* estimated, its three documents uploaded, its record appended with the
\* stamped payment, and answered with the contact link.
C12_Witness ==
    /\ step = "done" /\ Succeeded /\ Estimated /\ AllUploaded /\ Appended
    /\ LinkGenerated
    /\ sheet[1].cuota_estimada = cuota_estimada
    /\ whatsapp_url.val.n = <<"5", "7", "3", "0", "0", "1", "2", "3", "4", "5", "6", "7">>

\* payment_monthly as simulate computes it (app.py:493-507): the amount is
\* rounded to pesos and the rate selected with the tags of the request.
simulate_payment_monthly(amount, periods, tipo_credito, tipo_persona) ==
    calcular_cuota_mensual(DecPos(DecQuantize(amount), 0), periods, tipo_credito, tipo_persona)

\* C13: the estimated payment solicitar_credito stamps on the record is the
\* contractual payment for the application's own principal, period count and
\* product type, the one simulate returns as payment_monthly for them; for a
\* "libranza" application it is computed with the payroll rate whatever the
\* amount.
C13_EstimateIsContractual ==
    Estimated =>
        LET dc == solicitud.detalles_credito
        IN  /\ dc.cuota_estimada = cuota_estimada
            /\ cuota_estimada.val = simulate_payment_monthly(dc.monto_solicitado,
                     dc.plazo_meses, dc.tipo_credito, dc.tipo_persona)

\* C14: for a request with principal > 0 and 1 <= periods <= 60, in every
\* row of the schedule, the intermediate rows included, the principal portion
\* is at least 0 and at most the opening balance of the row, so that the
\* closing balance is never negative and never above the opening balance.
C14_PortionWithinBalance ==
    (P > 0 /\ n >= 1 /\ n <= ProductCap) =>
        \A j \in 1..Len(schedule) :
            /\ schedule[j].abono_capital >= 0
            /\ schedule[j].abono_capital <= schedule[j].saldo_inicial
            /\ schedule[j].saldo_final >= 0
            /\ schedule[j].saldo_final <= schedule[j].saldo_inicial

====
